---- MODULE Spec2Model ----
(***************************************************************************)
(* Model of src/src/websocket-server/index.ts (expandor-mcp): the bridge   *)
(* between an MCP host (stdio) and one Expandor peer (WebSocket).          *)
(*                                                                         *)
(* One action is one macrotask of the Node.js event loop (a host request,  *)
(* a socket event, a timer callback) together with the promise reactions   *)
(* (microtasks) it schedules: those run to completion before the next      *)
(* macrotask starts, so the continuation of an awaiting callExpandor and   *)
(* of the request handler that awaits it belongs to the action that        *)
(* settles the promise.                                                    *)
(***************************************************************************)
EXTENDS Integers, Sequences, FiniteSets, TLC

\* ---------------------------------------------------------------- bounds
MaxCalls == 2      \* host requests handled in one behaviour
MaxSockets == 2    \* peer sockets that ever connect
MaxWaits == 2      \* calls of waitForConnection in one behaviour

\* ------------------------------------------------------------- value sets
Sockets == 1..MaxSockets
Calls == 1..MaxCalls
Waits == 1..MaxWaits
\* the strings nanoid(10) returns and peers put in the id field of a
\* round_trip message: as many as there are requests, so that the requests
\* can have ids that are all different, all equal, or anything between
Ids == 1..MaxCalls

\* the JavaScript null held by expandor_ws when no peer is attached
null == 0

\* the seven operations, named by the type tag their handler forwards
Ops ==
  {"list_resources", "list_resource_templates", "read_resource",
   "list_prompts", "complete_prompt", "list_tools", "call_tool"}

\* request.params of the host request (opaque)
Params == {"p1"}

\* the payloads a peer can put in a round_trip message: `data` is an object
\* whose unwrapped field is `body` and whose `success` field is read by the
\* call-tool handler only; `error` is any JSON value
Item(m) == [type |-> "text", message |-> m]
Bodies == {<<Item("d1")>>}
Data == [body : Bodies, success : BOOLEAN]
PeerErrors == {"e1"}

\* new Error("Timeout"), new Error("Timeout waiting for client connection"),
\* new Error("No client connected"), and whatever WebSocket.send throws:
\* Error objects, distinct from every JSON value
TimeoutError == "Error: Timeout"
WaitTimeoutError == "Error: Timeout waiting for client connection"
NoClientError == "Error: No client connected"
SendError == "Error: send failed"

\* ---------------------------------------------------------------- promises
\* how a promise settles
Fulfilled(v) == [state |-> "fulfilled", value |-> v]
Rejected(e) == [state |-> "rejected", reason |-> e]
\* the `result` of a request answered without calling callExpandor
NotCalled == [state |-> "none"]

\* ------------------------------------------------------------------ state
VARIABLES
  expandor_ws,        \* the attached peer socket, or null
  sock,               \* per socket: "new" (not connected yet), "attached"
                      \* (admitted, handlers registered), "refused", "closed"
  roundTripRegistry,  \* Map id -> the call whose {resolve, reject} it holds
  calls,              \* the host requests so far: what is left of each
  waits,              \* the calls of waitForConnection so far
  ev,                 \* the event the last macrotask handled
  out                 \* what the last macrotask put out: the ws.send calls
                      \* it made (sent), the ws.close calls (closed), the
                      \* notifications (notified) and the responses to host
                      \* requests (answered)

vars == <<expandor_ws, sock, roundTripRegistry, calls, waits, ev, out>>

\* Map operations on roundTripRegistry
MapHas(m, k) == k \in DOMAIN m
MapSet(m, k, v) == [x \in (DOMAIN m) \cup {k} |-> IF x = k THEN v ELSE m[x]]
MapDelete(m, k) == [x \in (DOMAIN m) \ {k} |-> m[x]]
EmptyMap == [x \in {} |-> 0]

\* nothing sent, nothing closed, nothing notified, nothing answered
NoOut == [sent |-> <<>>, closed |-> <<>>, notified |-> <<>>, answered |-> <<>>]

\* ------------------------------------------------------ inbound messages
\* message.toString() as JSON.parse sees it: text that does not parse, or an
\* object with a type field
MalformedMsgs == {[parses |-> FALSE]}
PlainMsgs ==
  {[parses |-> TRUE, type |-> t] : t \in {"ping", "client_connected", "other"}}
RoundTripMsgs ==
  {[parses |-> TRUE, type |-> "round_trip", id |-> i, success |-> TRUE,
    data |-> d] : i \in Ids, d \in Data}
  \cup
  {[parses |-> TRUE, type |-> "round_trip", id |-> i, success |-> FALSE,
    error |-> e] : i \in Ids, e \in PeerErrors}
Messages == MalformedMsgs \cup PlainMsgs \cup RoundTripMsgs

\* ------------------------------------------------------- host responses
\* what the MCP Server does with a request handler's promise: a returned
\* object becomes the response, a thrown error becomes an error response
HostResult(v) == [kind |-> "result", result |-> v]
HostError(e) == [kind |-> "error", error |-> e]

Placeholder == Item("No client connected")

\* the object each handler returns when expandor_ws is null
Fallback(op) ==
  CASE op = "list_resources" -> [resources |-> <<>>]
    [] op = "list_resource_templates" -> [resourceTemplates |-> <<>>]
    [] op = "read_resource" -> [contents |-> <<Placeholder>>]
    [] op = "list_prompts" -> [prompts |-> <<>>]
    [] op = "complete_prompt" -> [result |-> null]
    [] op = "list_tools" -> [tools |-> <<>>]
    [] op = "call_tool" -> [content |-> <<Placeholder>>]

\* the object each handler builds from the value callExpandor returned
Unwrap(op, resp) ==
  CASE op = "list_resources" -> [resources |-> resp.body]
    [] op = "list_resource_templates" -> [resourceTemplates |-> resp.body]
    [] op = "read_resource" -> [contents |-> resp.body]
    [] op = "list_prompts" -> [prompts |-> resp.body]
    [] op = "complete_prompt" -> [messages |-> resp.body]
    [] op = "list_tools" -> [tools |-> resp.body]
    [] op = "call_tool" -> [isError |-> ~resp.success, content |-> resp.body]

\* HandlerReturn with call-tool catching the rejection and returning it as
\* a failed result
HandlerReturn_ToolFailureAsResult(op, p) ==
  IF p.state = "fulfilled"
    THEN HostResult(Unwrap(op, p.value))
    ELSE IF op = "call_tool"
           THEN HostResult([isError |-> TRUE, content |-> <<Item(p.reason)>>])
           ELSE HostError(p.reason)

\* the handler after `await callExpandor(...)`: p is the settled promise
HandlerReturn(op, p) ==
  IF p.state = "fulfilled"
    THEN HostResult(Unwrap(op, p.value))
    ELSE HostError(p.reason)

\* the ops whose handler forwards request.params
HasParams(op) == op \in {"read_resource", "complete_prompt", "call_tool"}

\* Envelope with the type tag of the peer's replies instead of the operation's
Envelope_ReplyTag(id, op, params) ==
  IF HasParams(op)
    THEN [id |-> id, type |-> "round_trip", params |-> params]
    ELSE [id |-> id, type |-> "round_trip"]

\* JSON.stringify({ id, ...message })
Envelope(id, op, params) ==
  IF HasParams(op)
    THEN [id |-> id, type |-> op, params |-> params]
    ELSE [id |-> id, type |-> op]

\* ----------------------------------------------------------- conditions
\* NoPeer with the check left out of the handler
NoPeer_Unchecked == FALSE

\* `!expandor_ws` at the top of each request handler
NoPeer == expandor_ws = null

\* AlreadyConnected with the admission check left out
AlreadyConnected_NeverRefuses == FALSE

\* `expandor_ws != null` in the connection callback
AlreadyConnected == expandor_ws # null

\* NoClient with the check left out of callExpandor
NoClient_Unchecked == FALSE

\* `!expandor_ws` at the top of callExpandor
NoClient == expandor_ws = null

\* Finally without the delete
Finally_NoDelete(m, id) == m

\* the finally block of callExpandor: roundTripRegistry.delete(id)
Finally(m, id) == MapDelete(m, id)

\* ReplyKey falling back to a pending entry when the id is unknown
ReplyKey_ByArrival(m) ==
  IF m.id \in DOMAIN roundTripRegistry \/ DOMAIN roundTripRegistry = {}
    THEN m.id
    ELSE CHOOSE k \in DOMAIN roundTripRegistry : TRUE

\* the registry key a round_trip message is looked up by: its id field
ReplyKey(m) == m.id

\* ------------------------------------------------------------------- Init
Init ==
  /\ expandor_ws = null
  /\ sock = [s \in Sockets |-> "new"]
  /\ roundTripRegistry = EmptyMap
  /\ calls = <<>>
  /\ waits = <<>>
  /\ ev = [type |-> "init"]
  /\ out = NoOut

\* ----------------------------------------------------------- callExpandor
\* The strings nanoid(10) can return to a call. It draws 10 random characters
\* and does not look at the registry, so it can return the id of a call that
\* is still pending as well as an id no pending call has. Ids are only ever
\* compared for equality, so one id stands for all the ids that no pending
\* call has: the least of them.
nanoid ==
  LET pending == {calls[c].id :
                    c \in {d \in DOMAIN calls : calls[d].pc = "awaiting"}}
      free == Ids \ pending
  IN  pending \cup {i \in free : \A j \in free : i <= j}

\* A request suspended at `await promise` in callExpandor: `calling` and the
\* Promise.race promise are pending, the setTimeout timer is armed, and the
\* frames of callExpandor (id) and of its handler (op, params) are live.
Awaiting(op, params, id) ==
  [pc |-> "awaiting", op |-> op, params |-> params, id |-> id,
   timer |-> "armed"]

\* A request whose handler has returned or thrown: its promises are settled
\* and its frames are gone; what is left is its timer ("none" if setTimeout
\* was never called, else "armed" or "fired").
Done(timer) == [pc |-> "done", timer |-> timer]

\* callExpandor from `await promise` on, once promise is settled as p: the
\* result is returned or the error rethrown to the handler of request c, and
\* the handler answers the host (callExpandor's finally block is the
\* MapDelete each user of this operator applies to the registry)
Resume(c, op, p) ==
  [call |-> c, op |-> op, result |-> p, response |-> HandlerReturn(op, p)]

\* callExpandor({type: op, params}) called for request c; id is the string
\* nanoid(10) returns, sendThrows whether expandor_ws.send throws
callExpandor(c, op, params, id, sendThrows) ==
  IF NoClient
    THEN /\ calls' = Append(calls, Done("none"))
         /\ roundTripRegistry' = roundTripRegistry
         /\ out' = [NoOut EXCEPT !.answered =
              <<Resume(c, op, Rejected(NoClientError))>>]
    ELSE LET registered == MapSet(roundTripRegistry, id, c)
         IN  IF sendThrows
               THEN \* the executor's throw rejects `calling`; the race and
                    \* its timer are still set up, then the await rethrows
                    /\ calls' = Append(calls, Done("armed"))
                    /\ roundTripRegistry' = Finally(registered, id)
                    /\ out' = [NoOut EXCEPT
                         !.sent = <<[to |-> expandor_ws,
                                     msg |-> Envelope(id, op, params)]>>,
                         !.answered = <<Resume(c, op, Rejected(SendError))>>]
               ELSE /\ calls' = Append(calls, Awaiting(op, params, id))
                    /\ roundTripRegistry' = registered
                    /\ out' = [NoOut EXCEPT !.sent =
                         <<[to |-> expandor_ws,
                            msg |-> Envelope(id, op, params)]>>]

\* one of the seven server.setRequestHandler callbacks, for the operation op
HostRequest(op, params, id, sendThrows) ==
  /\ Len(calls) < MaxCalls
  /\ ev' = [type |-> "request", call |-> Len(calls) + 1, op |-> op]
  /\ IF NoPeer
       THEN /\ calls' = Append(calls, Done("none"))
            /\ roundTripRegistry' = roundTripRegistry
            /\ out' = [NoOut EXCEPT !.answered =
                 <<[call |-> Len(calls) + 1, op |-> op, result |-> NotCalled,
                    response |-> HostResult(Fallback(op))]>>]
       ELSE callExpandor(Len(calls) + 1, op, params, id, sendThrows)
  /\ UNCHANGED <<expandor_ws, sock>>
  /\ UNCHANGED waits

\* callExpandor called by code that does not test expandor_ws first (the
\* seven handlers all do; callExpandor is a function of its own, and this is
\* a call of it as such)
DirectCall(op, params, id, sendThrows) ==
  /\ Len(calls) < MaxCalls
  /\ ev' = [type |-> "call", call |-> Len(calls) + 1, op |-> op]
  /\ callExpandor(Len(calls) + 1, op, params, id, sendThrows)
  /\ UNCHANGED <<expandor_ws, sock>>
  /\ UNCHANGED waits

\* the setTimeout callback of request c's callExpandor, 30000 ms after it:
\* reject(new Error("Timeout")), which does nothing to a settled promise.
\* All timers have the same delay, so they fire in the order they were set.
TimerFire(c) ==
  /\ c \in 1..Len(calls)
  /\ calls[c].timer = "armed"
  /\ \A b \in 1..(c - 1) : calls[b].timer # "armed"
  /\ calls' = [calls EXCEPT ![c] = Done("fired")]
  /\ IF calls[c].pc = "awaiting"
       THEN /\ roundTripRegistry' = Finally(roundTripRegistry, calls[c].id)
            /\ out' = [NoOut EXCEPT !.answered =
                 <<Resume(c, calls[c].op, Rejected(TimeoutError))>>]
       ELSE /\ roundTripRegistry' = roundTripRegistry
            /\ out' = NoOut
  /\ ev' = [type |-> "timer", call |-> c]
  /\ UNCHANGED <<expandor_ws, sock>>
  /\ UNCHANGED waits

\* ------------------------------------------------------ waitForConnection
\* A call of waitForConnection: its Promise.race promise, its setInterval
\* and its setTimeout timer
Waiting ==
  [promise |-> [state |-> "pending"], interval |-> "set", timer |-> "armed"]

\* waitForConnection(): the two executors run, setInterval(..., 500) and
\* setTimeout(..., 30000) are called, and the race promise is returned
waitForConnection ==
  /\ Len(waits) < MaxWaits
  /\ waits' = Append(waits, Waiting)
  /\ ev' = [type |-> "wait", wait |-> Len(waits) + 1]
  /\ out' = NoOut
  /\ UNCHANGED <<expandor_ws, sock, roundTripRegistry, calls>>

\* Observed that takes a peer to be attached whatever the slot holds
Observed_Always == TRUE

\* `if (expandor_ws)` in the interval callback
Observed == expandor_ws # null

\* the setInterval callback of the w-th waitForConnection, every 500 ms until
\* the interval is cleared: with a peer in the slot it clears the interval
\* and resolves, the race promise is fulfilled and .finally clears the
\* interval again; with none it logs
PollTick(w) ==
  /\ w \in 1..Len(waits)
  /\ waits[w].interval = "set"
  /\ ev' = [type |-> "poll", wait |-> w]
  /\ IF Observed
       THEN waits' = [waits EXCEPT ![w] =
              [promise |-> IF @.promise.state = "pending"
                             THEN [state |-> "fulfilled"] ELSE @.promise,
               interval |-> "cleared", timer |-> @.timer]]
       ELSE waits' = waits
  /\ out' = NoOut
  /\ UNCHANGED <<expandor_ws, sock, roundTripRegistry, calls>>

\* the setTimeout callback of the w-th waitForConnection, 30000 ms after the
\* call: reject(new Error(...)), which does nothing if the race promise is
\* settled; else the race promise is rejected and .finally clears the
\* interval. All these timers have the same delay, so they fire in the order
\* they were set.
WaitTimeout(w) ==
  /\ w \in 1..Len(waits)
  /\ waits[w].timer = "armed"
  /\ \A v \in 1..(w - 1) : waits[v].timer # "armed"
  /\ ev' = [type |-> "wait_timer", wait |-> w]
  /\ IF waits[w].promise.state = "pending"
       THEN waits' = [waits EXCEPT ![w] =
              [promise |-> Rejected(WaitTimeoutError),
               interval |-> "cleared", timer |-> "fired"]]
       ELSE waits' = [waits EXCEPT ![w].timer = "fired"]
  /\ out' = NoOut
  /\ UNCHANGED <<expandor_ws, sock, roundTripRegistry, calls>>

\* ------------------------------------------------- handleWebSocketMessage
\* server.sendResourceListChanged(); sendPromptListChanged();
\* sendToolListChanged()
AllListsChanged ==
  <<"notifications/resources/list_changed",
    "notifications/prompts/list_changed",
    "notifications/tools/list_changed">>

\* the round_trip case for a message whose id is a key of the registry:
\* the entry is deleted, its handler resolves or rejects `calling`, and the
\* reactions run: Promise.race settles, callExpandor resumes, its finally
\* deletes its own id
SettleRoundTrip(m) ==
  LET c == roundTripRegistry[ReplyKey(m)]
      outcome == IF m.success THEN Fulfilled(m.data) ELSE Rejected(m.error)
      deleted == MapDelete(roundTripRegistry, ReplyKey(m))
  IN  IF calls[c].pc = "awaiting"
        THEN /\ calls' = [calls EXCEPT ![c] = Done(calls[c].timer)]
             /\ roundTripRegistry' = Finally(deleted, calls[c].id)
             /\ out' = [NoOut EXCEPT !.answered =
                  <<Resume(c, calls[c].op, outcome)>>]
        ELSE /\ calls' = calls
             /\ roundTripRegistry' = deleted
             /\ out' = NoOut

\* LogOnly that treats the message as a client_connected
LogOnly_Notifies ==
  /\ out' = [NoOut EXCEPT !.notified = AllListsChanged]
  /\ UNCHANGED <<roundTripRegistry, calls>>

\* the default case and the catch block of handleWebSocketMessage: log(...)
LogOnly ==
  /\ out' = NoOut
  /\ UNCHANGED <<roundTripRegistry, calls>>

\* handleWebSocketMessage({ message, ws })
handleWebSocketMessage(m, ws) ==
  IF ~m.parses
    THEN \* JSON.parse throws, the catch block logs
         LogOnly
    ELSE CASE m.type = "ping" ->
                /\ out' = [NoOut EXCEPT !.sent =
                     <<[to |-> ws, msg |-> [type |-> "pong"]]>>]
                /\ UNCHANGED <<roundTripRegistry, calls>>
           [] m.type = "client_connected" ->
                /\ out' = [NoOut EXCEPT !.notified = AllListsChanged]
                /\ UNCHANGED <<roundTripRegistry, calls>>
           [] m.type = "round_trip" ->
                IF MapHas(roundTripRegistry, ReplyKey(m))
                  THEN SettleRoundTrip(m)
                  ELSE /\ out' = NoOut
                       /\ UNCHANGED <<roundTripRegistry, calls>>
           [] OTHER -> LogOnly

\* --------------------------------------------------------- socket events
\* wss.on('connection'): the socket s connects (sockets are numbered in the
\* order in which they connect)
Connection(s) ==
  /\ sock[s] = "new"
  /\ \A t \in 1..(s - 1) : sock[t] # "new"
  /\ ev' = [type |-> "connection", ws |-> s]
  /\ IF AlreadyConnected
       THEN /\ out' = [NoOut EXCEPT !.closed =
                 <<[ws |-> s, code |-> 1001,
                    reason |-> "Already connected to a client"]>>]
            /\ sock' = [sock EXCEPT ![s] = "refused"]
            /\ expandor_ws' = expandor_ws
       ELSE /\ expandor_ws' = s
            /\ sock' = [sock EXCEPT ![s] = "attached"]
            /\ out' = [NoOut EXCEPT !.notified =
                 <<"notifications/tools/list_changed">>]
  /\ UNCHANGED <<roundTripRegistry, calls>>
  /\ UNCHANGED waits

\* ws.on('message') of an admitted socket
Message(s, m) ==
  /\ sock[s] = "attached"
  /\ ev' = [type |-> "message", ws |-> s, msg |-> m]
  /\ handleWebSocketMessage(m, s)
  /\ UNCHANGED <<expandor_ws, sock>>
  /\ UNCHANGED waits

\* Close that also drops the entries of the pending calls
Close_DropsPending(s) ==
  /\ sock[s] = "attached"
  /\ ev' = [type |-> "close", ws |-> s]
  /\ expandor_ws' = null
  /\ sock' = [sock EXCEPT ![s] = "closed"]
  /\ out' = NoOut
  /\ roundTripRegistry' = EmptyMap
  /\ UNCHANGED calls
  /\ UNCHANGED waits

\* ws.on('close') of an admitted socket
Close(s) ==
  /\ sock[s] = "attached"
  /\ ev' = [type |-> "close", ws |-> s]
  /\ expandor_ws' = null
  /\ sock' = [sock EXCEPT ![s] = "closed"]
  /\ out' = NoOut
  /\ UNCHANGED <<roundTripRegistry, calls>>
  /\ UNCHANGED waits

\* Error that detaches the peer
Error_Detaches(s) ==
  /\ sock[s] = "attached"
  /\ ev' = [type |-> "error", ws |-> s]
  /\ expandor_ws' = null
  /\ out' = NoOut
  /\ UNCHANGED <<sock, roundTripRegistry, calls>>
  /\ UNCHANGED waits

\* ws.on('error') of an admitted socket
Error(s) ==
  /\ sock[s] = "attached"
  /\ ev' = [type |-> "error", ws |-> s]
  /\ out' = NoOut
  /\ UNCHANGED <<expandor_ws, sock, roundTripRegistry, calls>>
  /\ UNCHANGED waits

\* RefusedEvent with the handlers of an admitted socket registered on the
\* refused one: its close clears the slot, its messages get a pong
RefusedEvent_Handled(s, kind) ==
  /\ sock[s] = "refused"
  /\ ev' = [type |-> "unhandled", ws |-> s, event |-> kind]
  /\ IF kind = "close"
       THEN expandor_ws' = null /\ out' = NoOut
       ELSE /\ expandor_ws' = expandor_ws
            /\ out' = [NoOut EXCEPT !.sent =
                 <<[to |-> s, msg |-> [type |-> "pong"]]>>]
  /\ UNCHANGED <<sock, roundTripRegistry, calls>>
  /\ UNCHANGED waits

\* a message or the close of a socket that was refused: the connection
\* callback returned before registering any handler on it, so no code runs
RefusedEvent(s, kind) ==
  /\ sock[s] = "refused"
  /\ ev' = [type |-> "unhandled", ws |-> s, event |-> kind]
  /\ out' = NoOut
  /\ UNCHANGED <<expandor_ws, sock, roundTripRegistry, calls>>
  /\ UNCHANGED waits

\* ------------------------------------------------------------------- Next
Next ==
  \/ \E op \in Ops, params \in Params, id \in nanoid, sendThrows \in BOOLEAN :
       HostRequest(op, params, id, sendThrows)
  \/ \E c \in Calls : TimerFire(c)
  \/ \E s \in Sockets : Connection(s)
  \/ \E s \in Sockets, m \in Messages : Message(s, m)
  \/ \E s \in Sockets : Close(s)
  \/ \E s \in Sockets : Error(s)
  \/ \E s \in Sockets, kind \in {"message", "close"} :
       RefusedEvent(s, kind)

Spec == Init /\ [][Next]_vars

\* callExpandor on its own: the program with direct calls of callExpandor in
\* the place of the host requests
CallNext ==
  \/ \E op \in Ops, params \in Params, id \in nanoid, sendThrows \in BOOLEAN :
       DirectCall(op, params, id, sendThrows)
  \/ \E c \in Calls : TimerFire(c)
  \/ \E s \in Sockets : Connection(s)
  \/ \E s \in Sockets, m \in Messages : Message(s, m)
  \/ \E s \in Sockets : Close(s)
  \/ \E s \in Sockets : Error(s)
  \/ \E s \in Sockets, kind \in {"message", "close"} :
       RefusedEvent(s, kind)

CallSpec == Init /\ [][CallNext]_vars

\* waitForConnection on its own (no code of the program calls it): calls of
\* it, their interval and timer callbacks, and the peers that come and go;
\* the timers fire
WaitNext ==
  \/ waitForConnection
  \/ \E w \in Waits : PollTick(w)
  \/ \E w \in Waits : WaitTimeout(w)
  \/ \E s \in Sockets : Connection(s)
  \/ \E s \in Sockets : Close(s)

WaitSpec ==
  Init /\ [][WaitNext]_vars /\ \A w \in Waits : WF_vars(WaitTimeout(w))

\* timers fire: every armed setTimeout callback eventually runs
FairSpec == Spec /\ \A c \in Calls : WF_vars(TimerFire(c))

\* ======================================================================
\* Properties
\* ======================================================================

\* the last event is a round_trip message handled by handleWebSocketMessage
IsRoundTrip(e) ==
  e.type = "message" /\ e.msg.parses /\ e.msg.type = "round_trip"

\* what a round_trip message asks to deliver: its data, or its error
ReplyPayload(m) ==
  IF m.success
    THEN [state |-> "fulfilled", value |-> m.data]
    ELSE [state |-> "rejected", reason |-> m.error]

\* the requests answered by a step's output o
AnsweredCalls(o) == {o.answered[i].call : i \in 1..Len(o.answered)}

\* the requests suspended in callExpandor
AwaitingCalls == {c \in DOMAIN calls : calls[c].pc = "awaiting"}

\* C1 (as claimed). Exactly-once settlement: an awaiting call whose timer
\* fires is answered with the Timeout error; an awaiting call for whose id a
\* round_trip reply arrives is answered with that reply's data or error; a
\* call is answered in the step in which it finishes and never again; and
\* when it finishes the registry has no entry for its id.
C1_ExactlyOnceSettlement ==
  [][\A c \in DOMAIN calls :
       /\ (calls[c].pc = "awaiting" /\ ev'.type = "timer" /\ ev'.call = c)
            => /\ Len(out'.answered) = 1
               /\ out'.answered[1].call = c
               /\ out'.answered[1].result =
                    [state |-> "rejected", reason |-> TimeoutError]
       /\ (calls[c].pc = "awaiting" /\ IsRoundTrip(ev')
             /\ ev'.msg.id = calls[c].id)
            => /\ Len(out'.answered) = 1
               /\ out'.answered[1].call = c
               /\ out'.answered[1].result = ReplyPayload(ev'.msg)
       /\ (calls[c].pc = "awaiting" /\ calls'[c].pc = "awaiting")
            => c \notin AnsweredCalls(out')
       /\ (calls[c].pc = "awaiting" /\ calls'[c].pc = "done")
            => /\ c \in AnsweredCalls(out')
               /\ ~MapHas(roundTripRegistry', calls[c].id)
       /\ calls[c].pc = "done"
            => /\ calls'[c].pc = "done"
               /\ c \notin AnsweredCalls(out')
    ]_vars

\* C2 (as claimed). Uniqueness: the ids of the calls that are pending at
\* the same time are pairwise distinct.
C2_Uniqueness ==
  \A c, d \in AwaitingCalls : c # d => calls[c].id # calls[d].id

\* the sockets that were admitted and have not closed
AttachedSockets == {s \in Sockets : sock[s] = "attached"}

\* C3. Exclusivity: at most one peer is attached, and it is the one
\* expandor_ws holds; a connection made while a peer is attached is closed
\* with the reason "Already connected to a client" and gets no handlers,
\* while the slot, the first peer, the registry and the calls stay as they
\* were.
C3_Exclusivity ==
  /\ [](/\ expandor_ws \in Sockets \cup {null}
        /\ Cardinality(AttachedSockets) <= 1
        /\ AttachedSockets = (IF expandor_ws = null THEN {} ELSE {expandor_ws}))
  /\ [][\A s \in Sockets :
          (ev'.type = "connection" /\ ev'.ws = s /\ sock[s] = "new"
             /\ expandor_ws # null)
            => /\ out'.closed =
                    <<[ws |-> s, code |-> 1001,
                       reason |-> "Already connected to a client"]>>
               /\ sock'[s] = "refused"
               /\ expandor_ws' = expandor_ws
               /\ sock'[expandor_ws] = "attached"
               /\ UNCHANGED <<roundTripRegistry, calls>>
      ]_vars

\* C3 witness: after a second socket was refused, a call forwarded to the
\* first peer is answered with the data that peer replied
C3_Witness ==
  /\ \E s \in Sockets : sock[s] = "refused"
  /\ expandor_ws # null
  /\ IsRoundTrip(ev) /\ ev.ws = expandor_ws /\ ev.msg.success
  /\ Len(out.answered) = 1
  /\ out.answered[1].result.state = "fulfilled"

\* C4. No leak: a registry entry always belongs to a call that has not
\* finished, and (timers firing) every awaiting call eventually finishes and
\* every registry entry is eventually removed: from any moment on, a state
\* is reached in which no call is awaiting and the registry is empty. (A
\* finished call stays finished, so every call that was awaiting at that
\* moment has returned or thrown by then, and every entry that was in the
\* registry at that moment has been removed.)
C4_NoLeak ==
  /\ [](\A i \in DOMAIN roundTripRegistry :
          /\ roundTripRegistry[i] \in AwaitingCalls
          /\ calls[roundTripRegistry[i]].id = i)
  /\ []<>(AwaitingCalls = {} /\ roundTripRegistry = EmptyMap)

\* C4 witness: the peer detached while a call was pending, and the call's
\* timer then failed it with Timeout, leaving the registry empty
C4_Witness ==
  /\ ev.type = "timer"
  /\ expandor_ws = null
  /\ Len(out.answered) = 1
  /\ out.answered[1].result = [state |-> "rejected", reason |-> TimeoutError]
  /\ roundTripRegistry = EmptyMap

\* C5. Late-reply idempotence: a round_trip message whose id is not a key
\* of the registry changes neither the registry, the slot, the sockets nor
\* any call, finished or pending, and sends nothing to the peer or the host.
C5_LateReplyNoEffect ==
  [][(IsRoundTrip(ev') /\ ~MapHas(roundTripRegistry, ev'.msg.id))
       => /\ out' = NoOut
          /\ UNCHANGED <<roundTripRegistry, expandor_ws, sock, calls>>
    ]_vars

\* C5 witness: a round_trip message was handled without any effect while
\* one call had already finished and its timer fired, and another call was
\* still pending
C5_Witness ==
  /\ IsRoundTrip(ev)
  /\ out = NoOut
  /\ ~MapHas(roundTripRegistry, ev.msg.id)
  /\ \E c \in DOMAIN calls : calls[c].pc = "done" /\ calls[c].timer = "fired"
  /\ AwaitingCalls # {}

\* the value the no-peer branch of the handler of op is to return: an empty
\* list, a placeholder content item, or a null result
IsFallbackValue(op, v) ==
  CASE op = "list_resources" -> v.resources = <<>>
    [] op = "list_resource_templates" -> v.resourceTemplates = <<>>
    [] op = "read_resource" ->
         v.contents = <<[type |-> "text", message |-> "No client connected"]>>
    [] op = "list_prompts" -> v.prompts = <<>>
    [] op = "complete_prompt" -> v.result = null
    [] op = "list_tools" -> v.tools = <<>>
    [] op = "call_tool" ->
         v.content = <<[type |-> "text", message |-> "No client connected"]>>

\* C6. Graceful degradation: a host request handled while no peer is
\* attached is answered at once with the fallback value of its operation,
\* as a result and not as an error, without callExpandor being called, with
\* no registry entry added, no timer started and nothing sent to a peer.
C6_GracefulDegradation ==
  [][(ev'.type = "request" /\ expandor_ws = null)
       => /\ Len(out'.answered) = 1
          /\ out'.answered[1].call = ev'.call
          /\ out'.answered[1].op = ev'.op
          /\ out'.answered[1].result = [state |-> "none"]
          /\ out'.answered[1].response.kind = "result"
          /\ IsFallbackValue(ev'.op, out'.answered[1].response.result)
          /\ out'.sent = <<>>
          /\ calls'[ev'.call] = [pc |-> "done", timer |-> "none"]
          /\ UNCHANGED <<roundTripRegistry, expandor_ws, sock>>
    ]_vars

\* C6 witness: the peer has detached, an earlier call is still pending, and
\* a get-prompt request was just answered with its fallback
C6_Witness ==
  /\ ev.type = "request"
  /\ ev.op = "complete_prompt"
  /\ expandor_ws = null
  /\ Len(out.answered) = 1
  /\ out.answered[1].result = [state |-> "none"]
  /\ out.answered[1].response = [kind |-> "result", result |-> [result |-> null]]
  /\ AwaitingCalls # {}

\* C7 (as claimed). With no peer attached, the result call-tool returns has
\* its error flag set and carries the placeholder content.
C7_CallToolFallbackIsError ==
  \A i \in 1..Len(out.answered) :
    LET a == out.answered[i]
    IN  (a.op = "call_tool" /\ a.result = [state |-> "none"])
          => /\ a.response.kind = "result"
             /\ "isError" \in DOMAIN a.response.result
             /\ a.response.result.isError
             /\ a.response.result.content =
                  <<[type |-> "text", message |-> "No client connected"]>>

\* C8. Matching by id: a pending call that completes with peer data or a
\* peer error does so in the step that handles a round_trip message carrying
\* the call's own id, and with exactly that message's data (success=true) or
\* error (success=false); the call whose registry entry the message's id
\* designates is the one that completes; and a message carrying another id
\* leaves the call, and its registry entry, as they were.
C8_MatchingById ==
  [][\A c \in AwaitingCalls :
       /\ \A i \in 1..Len(out'.answered) :
            (/\ out'.answered[i].call = c
             /\ out'.answered[i].result #
                  [state |-> "rejected", reason |-> TimeoutError])
              => /\ IsRoundTrip(ev')
                 /\ ev'.msg.id = calls[c].id
                 /\ out'.answered[i].result = ReplyPayload(ev'.msg)
       /\ (/\ IsRoundTrip(ev')
           /\ MapHas(roundTripRegistry, ev'.msg.id)
           /\ roundTripRegistry[ev'.msg.id] = c)
            => /\ Len(out'.answered) = 1
               /\ out'.answered[1].call = c
               /\ out'.answered[1].result = ReplyPayload(ev'.msg)
       /\ (IsRoundTrip(ev') /\ ev'.msg.id # calls[c].id)
            => /\ calls'[c] = calls[c]
               /\ c \notin AnsweredCalls(out')
               /\ MapHas(roundTripRegistry, calls[c].id)
                    => /\ MapHas(roundTripRegistry', calls[c].id)
                       /\ roundTripRegistry'[calls[c].id] =
                            roundTripRegistry[calls[c].id]
    ]_vars

\* C8 witness: two calls with different ids were in flight and the reply to
\* the second one arrived first: it completed with that reply's data while
\* the first call is still pending
C8_Witness ==
  /\ Len(calls) = 2
  /\ calls[1].pc = "awaiting"
  /\ calls[2].pc = "done"
  /\ IsRoundTrip(ev)
  /\ ev.msg.success
  /\ ev.msg.id # calls[1].id
  /\ Len(out.answered) = 1
  /\ out.answered[1].call = 2
  /\ out.answered[1].result = [state |-> "fulfilled", value |-> ev.msg.data]

\* C9 (as claimed). Failure isolation: when the timer of a pending call
\* fails it with Timeout, the slot and the sockets are unchanged and every
\* other pending call stays pending, is not answered and keeps its registry
\* entry; and once a timer has fired, a pending call that receives a
\* success reply for its id still returns that reply's data.
C9_FailureIsolation ==
  [][\A c \in AwaitingCalls :
       /\ (ev'.type = "timer" /\ ev'.call = c)
            => /\ UNCHANGED <<expandor_ws, sock>>
               /\ \A d \in AwaitingCalls \ {c} :
                    /\ calls'[d] = calls[d]
                    /\ d \notin AnsweredCalls(out')
                    /\ MapHas(roundTripRegistry, calls[d].id)
                         => MapHas(roundTripRegistry', calls[d].id)
       /\ (/\ \E b \in DOMAIN calls : calls[b].timer = "fired"
           /\ IsRoundTrip(ev')
           /\ ev'.msg.success
           /\ ev'.msg.id = calls[c].id)
            => /\ Len(out'.answered) = 1
               /\ out'.answered[1].call = c
               /\ out'.answered[1].result =
                    [state |-> "fulfilled", value |-> ev'.msg.data]
    ]_vars

\* C10 (as claimed). A round_trip reply with success=false for a pending
\* call-tool request is answered to the host as a normal result marked as
\* failed; for the other six operations it is answered as an error.
C10_PeerFailureAsClaimed ==
  [][\A i \in 1..Len(out'.answered) :
       (IsRoundTrip(ev') /\ ~ev'.msg.success)
         => IF out'.answered[i].op = "call_tool"
              THEN /\ out'.answered[i].response.kind = "result"
                   /\ "isError" \in DOMAIN out'.answered[i].response.result
                   /\ out'.answered[i].response.result.isError
              ELSE out'.answered[i].response =
                     [kind |-> "error", error |-> ev'.msg.error]
    ]_vars

\* C10 (amended). A round_trip reply with success=false is answered to the
\* host as an error carrying the peer's error, for call-tool as for the
\* other six operations. A reply with success=true for a call-tool request
\* is answered as a normal result whose isError is the negation of the
\* success field of the reply's data, and that is the only way call-tool
\* returns a result marked as failed.
C10_PeerFailure ==
  [][\A i \in 1..Len(out'.answered) :
       LET a == out'.answered[i]
       IN  /\ (IsRoundTrip(ev') /\ ~ev'.msg.success)
                => a.response = [kind |-> "error", error |-> ev'.msg.error]
           /\ (IsRoundTrip(ev') /\ ev'.msg.success /\ a.op = "call_tool")
                => a.response =
                     [kind |-> "result",
                      result |-> [isError |-> ~ev'.msg.data.success,
                                  content |-> ev'.msg.data.body]]
           /\ (/\ a.op = "call_tool"
               /\ a.response.kind = "result"
               /\ "isError" \in DOMAIN a.response.result
               /\ a.response.result.isError)
                => /\ IsRoundTrip(ev')
                   /\ ev'.msg.success
                   /\ ~ev'.msg.data.success
    ]_vars

\* C10 witness: a pending call-tool request was just answered with an error
\* because the peer replied success=false
C10_Witness ==
  /\ IsRoundTrip(ev)
  /\ ~ev.msg.success
  /\ Len(out.answered) = 1
  /\ out.answered[1].op = "call_tool"
  /\ out.answered[1].response = [kind |-> "error", error |-> ev.msg.error]

\* the three list-changed notifications, as a set
ThreeNotifications ==
  {"notifications/resources/list_changed",
   "notifications/prompts/list_changed",
   "notifications/tools/list_changed"}

\* the notifications a step's output o sent to the host, as a set
Notified(o) == {o.notified[i] : i \in 1..Len(o.notified)}

\* C11 (as claimed). Attach notifications: the step that admits a peer
\* (a connection while the slot is empty) sends the host the resources, the
\* prompts and the tools list-changed notifications, the same set a
\* client_connected message of the attached peer sends.
C11_AttachNotifiesAll ==
  [][/\ (ev'.type = "connection" /\ expandor_ws = null)
          => Notified(out') = ThreeNotifications
     /\ (ev'.type = "message" /\ ev'.msg.parses
           /\ ev'.msg.type = "client_connected")
          => Notified(out') = ThreeNotifications
    ]_vars

\* C12. Detach does not auto-fail: the close event of the attached peer
\* empties the slot and leaves the registry and every call as they were,
\* answers no request and sends nothing; and a pending call finishes only in
\* the step of its own timer or of a round_trip message carrying its id.
C12_DetachKeepsPending ==
  [][/\ ev'.type = "close"
          => /\ expandor_ws # null
             /\ expandor_ws' = null
             /\ out' = NoOut
             /\ UNCHANGED <<roundTripRegistry, calls>>
     /\ \A c \in AwaitingCalls :
          calls'[c].pc = "done"
            => \/ ev'.type = "timer" /\ ev'.call = c
               \/ IsRoundTrip(ev') /\ ev'.msg.id = calls[c].id
    ]_vars

\* C12 witness: the attached peer has just closed while a call was pending;
\* the call is still pending and its registry entry is still there
C12_Witness ==
  /\ ev.type = "close"
  /\ expandor_ws = null
  /\ \E c \in AwaitingCalls :
       /\ MapHas(roundTripRegistry, calls[c].id)
       /\ roundTripRegistry[calls[c].id] = c

\* C14. One envelope per request: a host request handled while a peer is
\* attached makes exactly one ws.send call, on the peer attached at that
\* moment, with an envelope whose type is the operation's tag, whose id is
\* the id the call is registered under, and whose params (for the operations
\* that take parameters) are the request's; a request handled with no peer
\* attached sends nothing; and no other step (a timeout, a reply, a socket
\* event) sends an envelope: the only thing such a step sends is a pong.
C14_OneEnvelopePerRequest ==
  [][/\ (ev'.type = "request" /\ expandor_ws # null)
          => /\ Len(out'.sent) = 1
             /\ out'.sent[1].to = expandor_ws
             /\ out'.sent[1].msg.type = ev'.op
             /\ ev'.op \in {"list_resources", "list_resource_templates",
                            "read_resource", "list_prompts",
                            "complete_prompt", "list_tools", "call_tool"}
             /\ DOMAIN out'.sent[1].msg \subseteq {"id", "type", "params"}
             /\ "params" \in DOMAIN out'.sent[1].msg
                  => out'.sent[1].msg.params \in Params
             /\ ev'.op \in {"read_resource", "complete_prompt", "call_tool"}
                  => "params" \in DOMAIN out'.sent[1].msg
             /\ calls'[ev'.call].pc = "awaiting"
                  => /\ out'.sent[1].msg.id = calls'[ev'.call].id
                     /\ MapHas(roundTripRegistry', out'.sent[1].msg.id)
                     /\ roundTripRegistry'[out'.sent[1].msg.id] = ev'.call
     /\ (ev'.type = "request" /\ expandor_ws = null) => out'.sent = <<>>
     /\ ev'.type # "request"
          => \A i \in 1..Len(out'.sent) : out'.sent[i].msg = [type |-> "pong"]
    ]_vars

\* C14 witness: the first call timed out with nothing re-sent, and a second
\* request (call-tool) has just been forwarded in one envelope to the peer
C14_Witness ==
  /\ Len(calls) = 2
  /\ calls[1] = [pc |-> "done", timer |-> "fired"]
  /\ calls[2].pc = "awaiting"
  /\ ev.type = "request" /\ ev.call = 2 /\ ev.op = "call_tool"
  /\ expandor_ws # null
  /\ Len(out.sent) = 1
  /\ out.sent[1].to = expandor_ws
  /\ out.sent[1].msg = [id |-> calls[2].id, type |-> "call_tool",
                        params |-> calls[2].params]

\* the last event is a message of the attached peer that does not parse or
\* whose type is none of ping, client_connected, round_trip
IsJunk(e) ==
  /\ e.type = "message"
  /\ \/ ~e.msg.parses
     \/ e.msg.type \notin {"ping", "client_connected", "round_trip"}

\* C16. Malformed and unknown messages are dropped: a message of the
\* attached peer that does not parse, or whose type is not recognised,
\* leaves the peer attached and the registry and every call as they were,
\* answers no request, sends nothing to the peer and notifies the host of
\* nothing.
C16_JunkDropped ==
  [][IsJunk(ev')
       => /\ expandor_ws = ev'.ws
          /\ expandor_ws' = expandor_ws
          /\ sock'[ev'.ws] = "attached"
          /\ out'.sent = <<>>
          /\ out'.closed = <<>>
          /\ out'.notified = <<>>
          /\ out'.answered = <<>>
          /\ UNCHANGED <<sock, roundTripRegistry, calls>>
    ]_vars

\* C16 witness: the attached peer sent text that does not parse while a
\* call was pending; the call is still pending, and nothing was put out
C16_Witness ==
  /\ ev.type = "message"
  /\ ~ev.msg.parses
  /\ expandor_ws = ev.ws
  /\ out = NoOut
  /\ \E c \in AwaitingCalls : MapHas(roundTripRegistry, calls[c].id)

\* C17. A refused peer has no handlers: a message or the close of a socket
\* that the admission check refused settles no registry entry, gets no pong,
\* notifies the host of nothing and leaves the slot to the first peer; no
\* variable of the program changes.
C17_RefusedPeerInert ==
  [][\A s \in Sockets :
       (sock[s] = "refused" /\ ev'.type \notin {"request", "timer"}
          /\ ev'.ws = s)
         => /\ out'.sent = <<>>
            /\ out'.notified = <<>>
            /\ out'.answered = <<>>
            /\ expandor_ws' = expandor_ws
            /\ expandor_ws # null => sock'[expandor_ws] = "attached"
            /\ UNCHANGED <<sock, roundTripRegistry, calls>>
    ]_vars

\* C17 witness: the refused socket has just closed while the first peer is
\* attached and a call forwarded to it is pending
C17_Witness ==
  /\ ev.type = "unhandled"
  /\ ev.event = "close"
  /\ sock[ev.ws] = "refused"
  /\ expandor_ws \in Sockets \ {ev.ws}
  /\ sock[expandor_ws] = "attached"
  /\ AwaitingCalls # {}

\* C18. The slot changes in two kinds of step only: a connection while the
\* slot is empty, which puts the connecting socket in it, and the close of
\* the socket in the slot, which empties it; those two always change it, and
\* a message, a socket error, a timer, a host request and a refused
\* connection never do.
C18_SlotChanges ==
  [][/\ expandor_ws' # expandor_ws
          => \/ /\ ev'.type = "connection"
                /\ expandor_ws = null
                /\ expandor_ws' = ev'.ws
             \/ /\ ev'.type = "close"
                /\ expandor_ws = ev'.ws
                /\ expandor_ws' = null
     /\ (ev'.type = "connection" /\ expandor_ws = null)
          => expandor_ws' = ev'.ws
     /\ ev'.type = "close" => (expandor_ws = ev'.ws /\ expandor_ws' = null)
     /\ ev'.type \in {"message", "error", "timer", "request", "unhandled"}
          => expandor_ws' = expandor_ws
     /\ (ev'.type = "connection" /\ expandor_ws # null)
          => expandor_ws' = expandor_ws
    ]_vars

\* C18 witness: the attached peer's socket has just had an error event and
\* is still in the slot, with a call pending
C18_Witness ==
  /\ ev.type = "error"
  /\ expandor_ws = ev.ws
  /\ sock[ev.ws] = "attached"
  /\ AwaitingCalls # {}

\* C19. Registry entries are not bound to a connection: the close of the
\* attached peer and the admission of another one leave the registry and the
\* pending calls as they were, and a round_trip message of whatever peer is
\* attached that carries the id of a pending call's registry entry settles
\* that call with the message's data or error and removes the entry.
C19_EntriesOutliveConnection ==
  [][/\ ev'.type \in {"close", "connection"}
          => UNCHANGED <<roundTripRegistry, calls>>
     /\ \A s \in Sockets, c \in AwaitingCalls :
          (/\ IsRoundTrip(ev')
           /\ ev'.ws = s
           /\ ev'.msg.id = calls[c].id
           /\ MapHas(roundTripRegistry, calls[c].id)
           /\ roundTripRegistry[calls[c].id] = c)
            => /\ Len(out'.answered) = 1
               /\ out'.answered[1].call = c
               /\ out'.answered[1].result = ReplyPayload(ev'.msg)
               /\ out'.answered[1].response =
                    HandlerReturn(calls[c].op, ReplyPayload(ev'.msg))
               /\ calls'[c] = [pc |-> "done", timer |-> calls[c].timer]
               /\ ~MapHas(roundTripRegistry', calls[c].id)
    ]_vars

\* C19 witness: call 1 was forwarded to a peer; request 2 was answered with
\* its fallback, so that peer had detached by then; the peer attached now was
\* admitted after that, and its round_trip message has just completed call 1
\* with its data, before call 1's timer fired
C19_Witness ==
  /\ Len(calls) = 2
  /\ calls[1] = [pc |-> "done", timer |-> "armed"]
  /\ calls[2] = [pc |-> "done", timer |-> "none"]
  /\ IsRoundTrip(ev)
  /\ ev.msg.success
  /\ expandor_ws = ev.ws
  /\ \E a \in Sockets \ {ev.ws} : sock[a] = "closed"
  /\ Len(out.answered) = 1
  /\ out.answered[1].call = 1
  /\ out.answered[1].result = [state |-> "fulfilled", value |-> ev.msg.data]

\* C15. callExpandor with no peer: a call of callExpandor made while the
\* slot is empty throws the error "No client connected" in the step of the
\* call, adds no registry entry, sends nothing and sets no timer.
C15_NoClientThrows ==
  [][(ev'.type = "call" /\ expandor_ws = null)
       => /\ Len(out'.answered) = 1
          /\ out'.answered[1].call = ev'.call
          /\ out'.answered[1].result =
               [state |-> "rejected", reason |-> "Error: No client connected"]
          /\ out'.sent = <<>>
          /\ calls'[ev'.call] = [pc |-> "done", timer |-> "none"]
          /\ UNCHANGED <<roundTripRegistry, expandor_ws, sock>>
    ]_vars

\* C15 witness: the peer detached while a call was pending, and a second
\* call of callExpandor has just thrown "No client connected"; the first
\* call's entry is still the only one
C15_Witness ==
  /\ ev.type = "call"
  /\ ev.call = 2
  /\ expandor_ws = null
  /\ Len(out.answered) = 1
  /\ out.answered[1].result =
       [state |-> "rejected", reason |-> "Error: No client connected"]
  /\ calls[1].pc = "awaiting"
  /\ DOMAIN roundTripRegistry = {calls[1].id}

\* C20. No-Peer never reaches the host: no request is answered with the
\* error "No client connected"; a request handled with the slot empty is
\* answered with a result without callExpandor being called, and a request
\* handled with a peer in the slot registers and sends in the same step:
\* it is either pending with its entry registered and its envelope sent, or
\* answered with the error the send threw.
C20_NoPeerNotSurfaced ==
  [][/\ \A i \in 1..Len(out'.answered) :
          /\ out'.answered[i].result #
               [state |-> "rejected", reason |-> "Error: No client connected"]
          /\ out'.answered[i].response #
               [kind |-> "error", error |-> "Error: No client connected"]
     /\ (ev'.type = "request" /\ expandor_ws = null)
          => /\ Len(out'.answered) = 1
             /\ out'.answered[1].result = [state |-> "none"]
             /\ out'.answered[1].response.kind = "result"
     /\ (ev'.type = "request" /\ expandor_ws # null)
          => /\ Len(out'.sent) = 1
             /\ \/ /\ calls'[ev'.call].pc = "awaiting"
                   /\ MapHas(roundTripRegistry', calls'[ev'.call].id)
                   /\ out'.answered = <<>>
                \/ /\ calls'[ev'.call] = [pc |-> "done", timer |-> "armed"]
                   /\ Len(out'.answered) = 1
                   /\ out'.answered[1].result =
                        [state |-> "rejected", reason |-> "Error: send failed"]
    ]_vars

\* C20 witness: the peer has closed and the next macrotask is a list-tools
\* request: it is answered with the empty tool list, not with an error
C20_Witness ==
  /\ ev.type = "request"
  /\ ev.op = "list_tools"
  /\ expandor_ws = null
  /\ \E s \in Sockets : sock[s] = "closed"
  /\ Len(out.answered) = 1
  /\ out.answered[1].response = [kind |-> "result", result |-> [tools |-> <<>>]]

\* the calls of waitForConnection whose promise is not settled
PendingWaits == {w \in DOMAIN waits : waits[w].promise.state = "pending"}

\* C13. Bounded wait for attachment: a call of waitForConnection settles
\* once and keeps its outcome; it is fulfilled only in the step of one of
\* its own poll ticks that finds a peer in the slot while its timer has not
\* fired, and such a tick does fulfil it; it is rejected only in the step of
\* its own timer, with the error "Timeout waiting for client connection",
\* and its timer does reject it if it is still pending; once its timer has
\* fired it is settled; once it is settled its interval is cleared, and no
\* poll tick of it runs; and (the timers firing) every call settles.
C13_BoundedWait ==
  /\ [](\A w \in DOMAIN waits :
          /\ waits[w].timer = "fired" => waits[w].promise.state # "pending"
          /\ waits[w].promise.state # "pending" => waits[w].interval = "cleared"
          /\ waits[w].promise.state = "pending" => waits[w].interval = "set")
  /\ [][\A w \in DOMAIN waits :
          /\ waits[w].promise.state # "pending"
               => /\ waits'[w].promise = waits[w].promise
                  /\ ~(ev'.type = "poll" /\ ev'.wait = w)
          /\ (w \in PendingWaits /\ waits'[w].promise.state = "fulfilled")
               => /\ ev'.type = "poll" /\ ev'.wait = w
                  /\ expandor_ws # null
                  /\ waits[w].timer = "armed"
          /\ (w \in PendingWaits /\ waits'[w].promise.state = "rejected")
               => /\ ev'.type = "wait_timer" /\ ev'.wait = w
                  /\ waits'[w].promise.reason =
                       "Error: Timeout waiting for client connection"
          /\ (w \in PendingWaits /\ ev'.type = "wait_timer" /\ ev'.wait = w)
               => waits'[w].promise.state = "rejected"
          /\ (w \in PendingWaits /\ ev'.type = "poll" /\ ev'.wait = w)
               => waits'[w].promise.state =
                    (IF expandor_ws # null THEN "fulfilled" ELSE "pending")
       ]_vars
  /\ []<>(PendingWaits = {})

\* C13 witness: one call polled with no peer attached until its timer
\* rejected it; a peer then attached, and the poll tick of a second call has
\* just found it and fulfilled that call
C13_Witness ==
  /\ Len(waits) = 2
  /\ waits[1] = [promise |-> [state |-> "rejected", reason |->
                    "Error: Timeout waiting for client connection"],
                 interval |-> "cleared", timer |-> "fired"]
  /\ waits[2] = [promise |-> [state |-> "fulfilled"],
                 interval |-> "cleared", timer |-> "armed"]
  /\ ev = [type |-> "poll", wait |-> 2]
  /\ expandor_ws # null

====
